---- MODULE Spec2Model ----
(***************************************************************************)
(* The Elejandria crawl of sushichef.py: the spider's page callbacks, the   *)
(* module-level NODE_TREE and NODE_COUNTERS, and the chef's crawl,          *)
(* consistency check and channel construction.                              *)
(*                                                                          *)
(* Texts that the code searches with `in` (button texts, class attributes,  *)
(* the h1 heading) are sequences of words; a word contains a needle when it *)
(* is the needle or is listed with it in KnownSubstrings.                   *)
(***************************************************************************)
EXTENDS Integers, Sequences, FiniteSets, Bags, TLC

VARIABLES
    site,           \* the remote catalog: URL -> page content (fixed during a run)
    NODE_TREE,      \* sequence of node ids: the top-level nodes
    NODE_COUNTERS,  \* the dict, in insertion order: sequence of [book, count]
    heap,           \* every node object built so far: id -> node
    frontier,       \* bag of requests scheduled and not yet answered
    seen,           \* URLs recorded by the scheduler's duplicate filter
    phase,          \* position of ElejandriaLibrosChef: init .. constructed
    stopped,        \* TRUE once the reactor was stopped from outside (SIGINT)
    failures,       \* requests whose fetch failed (logged and dropped)
    warned,         \* books for which consistency() logged a warning
    channel,        \* children of the ChannelNode
    prev            \* the finished tree of the previous run of the program

vars == <<site, NODE_TREE, NODE_COUNTERS, heap, frontier, seen, phase, stopped,
          failures, warned, channel, prev>>

\* ---------------------------------------------------------------- bounds

\* Fetches that may fail in one run.
MaxFailures == 1

\* Largest number of times one listing page repeats the same book link in
\* the catalogs that carry download buttons.
MaxRepeat == 2

\* ------------------------------------------------------ program constants

\* consistency(): "if count > 2" warns.
WarnAbove == 2

\* consistency(): "if count > 8" raises.
Ceiling == 8

CategoriesUrl == "https://www.elejandria.com/categorias"

CollectionsUrl == "https://www.elejandria.com/colecciones"

NoNode == 0

\* ------------------------------------------------------------------ texts

\* Pairs <<needle, word>> where the needle is a proper substring of the word.
KnownSubstrings == {<<"btn", "btn-primary">>, <<"btn", "btn-sm">>}

\* Python's `needle in text` for a text given as a sequence of words.
Contains(text, needle) ==
    \E i \in 1..Len(text) : text[i] = needle \/ <<needle, text[i]>> \in KnownSubstrings

RECURSIVE RemoveFirst(_, _)
\* str.replace(word + " ", "", 1): drops the first occurrence of the word.
RemoveFirst(text, word) ==
    IF text = <<>> THEN <<>>
    ELSE IF Head(text) = word THEN Tail(text)
    ELSE <<Head(text)>> \o RemoveFirst(Tail(text), word)

\* SourceId without the visit counter.
SourceIdUncounted(source_prefix, count, url) == source_prefix \o "-" \o url

\* "{}-{}-{}".format(source_prefix, NODE_COUNTERS[book_title], response.url)
SourceId(source_prefix, count, url) ==
    source_prefix \o "-" \o ToString(count) \o "-" \o url

\* ------------------------------------------------------------ the catalog

\* What the selectors of the callbacks find on a page:
\*   cats     h3.book-description a            (parse_categories)
\*   colls    .book-description h2 a           (parse_collections)
\*   books    .book div p a.primary-text-color (parse_category, parse_collection)
\*   h1       h1.bordered-heading::text        (parse_book)
\*   buttons  a.download-link                  (parse_book)
\*   dl       .book-description a.download-link::attr(href), "" when absent
BlankPage ==
    [cats |-> <<>>, colls |-> <<>>, books |-> <<>>, h1 |-> <<>>,
     buttons |-> <<>>, dl |-> ""]

Anchor(href, text, class) == [href |-> href, text |-> text, class |-> class]

Button(text, href) == [text |-> text, href |-> href]

URLs ==
    {CategoriesUrl, CollectionsUrl, "/cat1", "/cat2", "/sub1", "/sub2", "/deep",
     "/col1", "/b1", "/b2", "/b1/epub", "/b1/pdf"}

EPubButton == Button(<<"Descargar", "ePub">>, "/b1/epub")

PDFButton == Button(<<"Descargar", "PDF">>, "/b1/pdf")

\* The download buttons a book page may carry.
ButtonChoices ==
    { <<EPubButton, PDFButton>>, <<PDFButton, EPubButton>>, <<EPubButton>>,
      <<PDFButton>>, <<Button(<<"Leer", "online">>, "/b1/pdf")>>, <<>> }

RECURSIVE Repeat(_, _)
Repeat(x, n) == IF n = 0 THEN <<>> ELSE <<x>> \o Repeat(x, n - 1)

\* A catalog with one category holding one or two sub-categories and one
\* collection, all listing the book /b1: sub-category /sub1 lists it p.rep
\* times, the book page carries p.buttons, and its download pages carry a
\* file link when p.dl.
PlainSite(p) ==
    [u \in URLs |->
        CASE u = CategoriesUrl ->
               [BlankPage EXCEPT !.cats =
                    <<Anchor("/cat1", <<"Novela">>, <<>>),
                      Anchor("/cat1", <<"Ver", "todos">>, <<"btn", "btn-primary">>)>>]
          [] u = "/cat1" ->
               [BlankPage EXCEPT !.cats =
                    <<Anchor("/sub1", <<"Romance">>, <<"primary-text-color">>)>>
                    \o (IF p.twoCats
                        THEN <<Anchor("/sub2", <<"Clasicos">>, <<>>)>> ELSE <<>>)]
          [] u = CollectionsUrl ->
               [BlankPage EXCEPT !.colls = <<Anchor("/col1", <<"Cuarentena">>, <<>>)>>]
          [] u = "/sub1" -> [BlankPage EXCEPT !.books = Repeat("/b1", p.rep)]
          [] u = "/sub2" -> [BlankPage EXCEPT !.books = <<"/b1">>]
          [] u = "/col1" -> [BlankPage EXCEPT !.books = <<"/b1">>]
          [] u = "/b1" ->
               [BlankPage EXCEPT !.h1 = <<"Libro", "Orgullo">>, !.buttons = p.buttons]
          [] u \in {"/cat2", "/deep", "/b2"} -> BlankPage
          [] OTHER ->
               [BlankPage EXCEPT !.dl = IF p.dl THEN "/files/b1" ELSE ""]]

\* The pages by which a catalog of the given shape differs from the plain one.
\*   btnFirst  the button-style anchor stands before the category anchor
\*   shared    two categories link the same sub-category, and the
\*             collections index links the same collection twice
\*   nested    the sub-category page is itself an index of categories
\*   cycle     index, listing and book pages link back to themselves and to
\*             the pages above them
\*   twoBooks  the collection lists two pages of the same book title
Reshaped(shape) ==
    CASE shape = "btnFirst" ->
           [u \in {CategoriesUrl} |->
               [BlankPage EXCEPT !.cats =
                    <<Anchor("/cat1", <<"Ver", "todos">>, <<"btn", "btn-primary">>),
                      Anchor("/cat1", <<"Novela">>, <<>>)>>]]
      [] shape = "shared" ->
           [u \in {CategoriesUrl, "/cat2", CollectionsUrl} |->
               IF u = CategoriesUrl
               THEN [BlankPage EXCEPT !.cats =
                        <<Anchor("/cat1", <<"Novela">>, <<>>),
                          Anchor("/cat2", <<"Ficcion">>, <<>>)>>]
               ELSE IF u = "/cat2"
               THEN [BlankPage EXCEPT !.cats = <<Anchor("/sub1", <<"Romance">>, <<>>)>>]
               ELSE [BlankPage EXCEPT !.colls =
                        <<Anchor("/col1", <<"Cuarentena">>, <<>>),
                          Anchor("/col1", <<"Cuarentena">>, <<>>)>>]]
      [] shape = "nested" ->
           [u \in {"/sub1", "/deep"} |->
               IF u = "/sub1"
               THEN [BlankPage EXCEPT !.cats = <<Anchor("/deep", <<"Gotica">>, <<>>)>>]
               ELSE [BlankPage EXCEPT !.books = <<"/b1">>]]
      [] shape = "cycle" ->
           [u \in {CategoriesUrl, "/cat1", "/sub1", "/b1"} |->
               IF u = CategoriesUrl
               THEN [BlankPage EXCEPT !.cats =
                        <<Anchor("/cat1", <<"Novela">>, <<>>),
                          Anchor(CategoriesUrl, <<"Categorias">>, <<>>)>>]
               ELSE IF u = "/cat1"
               THEN [BlankPage EXCEPT !.cats =
                        <<Anchor("/sub1", <<"Romance">>, <<>>),
                          Anchor("/cat1", <<"Novela">>, <<>>),
                          Anchor(CategoriesUrl, <<"Categorias">>, <<>>)>>]
               ELSE IF u = "/sub1"
               THEN [BlankPage EXCEPT !.books = <<"/b1", "/sub1">>,
                                      !.cats = <<Anchor("/cat1", <<"Novela">>, <<>>)>>]
               ELSE [BlankPage EXCEPT !.h1 = <<"Libro", "Orgullo">>,
                                      !.buttons = <<Button(<<"Descargar", "ePub">>, "/b1")>>,
                                      !.books = <<"/b1">>,
                                      !.dl = "/b1"]]
      [] shape = "twoBooks" ->
           [u \in {"/col1", "/b2"} |->
               IF u = "/col1"
               THEN [BlankPage EXCEPT !.books = <<"/b1", "/b2">>]
               ELSE [BlankPage EXCEPT !.h1 = <<"Orgullo">>, !.buttons = <<PDFButton>>]]
      [] OTHER -> [u \in {} |-> BlankPage]

SiteOf(p) == Reshaped(p.shape) @@ PlainSite(p)

Params(rep, twoCats, buttons, dl) ==
    [rep |-> rep, twoCats |-> twoCats, buttons |-> buttons, dl |-> dl, shape |-> "plain"]

Shapes == {"btnFirst", "shared", "nested", "cycle", "twoBooks"}

\* The catalogs a run may meet.
Catalogs ==
    {Params(1, FALSE, b, d) : b \in ButtonChoices, d \in BOOLEAN}
    \cup {Params(r, FALSE, <<EPubButton, PDFButton>>, TRUE) : r \in 2..MaxRepeat}
    \cup {Params(1, TRUE, <<EPubButton, PDFButton>>, TRUE)}
    \cup {Params(r, FALSE, <<>>, TRUE) : r \in {Ceiling - 1, Ceiling}}
    \cup {[Params(1, FALSE, <<EPubButton, PDFButton>>, TRUE) EXCEPT !.shape = sh] :
             sh \in Shapes}

Sites == {SiteOf(p) : p \in Catalogs}

\* ------------------------------------------------------------------ nodes

\* nodes.TopicNode(title=..., source_id=...)
TopicNode(title, source_id) ==
    [kind |-> "TopicNode", title |-> title, source_id |-> source_id,
     children |-> <<>>, files |-> <<>>]

\* nodes.DocumentNode(source_id=..., title=..., files=[])
DocumentNode(source_id, title) ==
    [kind |-> "DocumentNode", title |-> title, source_id |-> source_id,
     children |-> <<>>, files |-> <<>>]

\* parent.add_child(child)
AddChild(h, parent, child) == [h EXCEPT ![parent].children = Append(@, child)]

\* document_node.add_file(file_cls(url))
AddFile(h, doc, file_cls, url) ==
    [h EXCEPT ![doc].files = Append(@, [cls |-> file_cls, url |-> url])]

\* --------------------------------------------------------------- requests

\* scrapy.Request(url, callback=..., cb_kwargs={...})
Request(url, callback, node, top_level, source_prefix, document_node, file_cls) ==
    [url |-> url, callback |-> callback, node |-> node, top_level |-> top_level,
     source_prefix |-> source_prefix, document_node |-> document_node,
     file_cls |-> file_cls]

\* A yielded request reaches the scheduler: one without dont_filter=True is
\* dropped when its URL was scheduled before, and recorded otherwise.
\* st.yielded lists what the callback has yielded so far.
Schedule(st, req, dont_filter) ==
    IF dont_filter
    THEN [st EXCEPT !.frontier = @ (+) SetToBag({req}), !.yielded = Append(@, req)]
    ELSE IF req.url \in st.seen THEN [st EXCEPT !.yielded = Append(@, req)]
    ELSE [st EXCEPT !.frontier = @ (+) SetToBag({req}), !.seen = @ \cup {req.url},
                    !.yielded = Append(@, req)]

Pending == BagToSet(frontier)

Take(req) == frontier (-) SetToBag({req})

\* --------------------------------------------------------- page callbacks

RECURSIVE CategoriesLoopRecursing(_, _, _, _, _)
\* CategoriesLoop handing top_level on to the requests it yields, so that
\* every page below is walked as an index again.
CategoriesLoopRecursing(st, links, i, node, top_level) ==
    IF i > Len(links) THEN st
    ELSE IF Contains(links[i].class, "btn")
    THEN CategoriesLoopRecursing(st, links, i + 1, node, top_level)
    ELSE LET id == Len(st.heap) + 1
             made == Append(st.heap, TopicNode(links[i].text, links[i].href))
             st1 == [st EXCEPT !.heap = AddChild(made, node, id)]
             request == Request(links[i].href, "parse_categories", id, top_level, "",
                                NoNode, "")
         IN  CategoriesLoopRecursing(Schedule(st1, request, FALSE), links, i + 1, node,
                                     top_level)

RECURSIVE CategoriesLoopSecondSkipped(_, _, _, _, _)
\* CategoriesLoop "skipping the second one" of each pair of links by its
\* position instead of by its class.
CategoriesLoopSecondSkipped(st, links, i, node, top_level) ==
    IF i > Len(links) THEN st
    ELSE IF i % 2 = 0
    THEN CategoriesLoopSecondSkipped(st, links, i + 1, node, top_level)
    ELSE LET id == Len(st.heap) + 1
             made == Append(st.heap, TopicNode(links[i].text, links[i].href))
             st1 == [st EXCEPT !.heap = AddChild(made, node, id)]
             request ==
                 IF top_level
                 THEN Request(links[i].href, "parse_categories", id, FALSE, "", NoNode, "")
                 ELSE Request(links[i].href, "parse_category", id, FALSE, "", NoNode, "")
         IN  CategoriesLoopSecondSkipped(Schedule(st1, request, FALSE), links, i + 1, node,
                                         top_level)

RECURSIVE CategoriesLoop(_, _, _, _, _)
\* The for loop of parse_categories over the links from position i on.
CategoriesLoop(st, links, i, node, top_level) ==
    IF i > Len(links) THEN st
    ELSE IF Contains(links[i].class, "btn")
    THEN CategoriesLoop(st, links, i + 1, node, top_level)
    ELSE LET id == Len(st.heap) + 1
             made == Append(st.heap, TopicNode(links[i].text, links[i].href))
             st1 == [st EXCEPT !.heap = AddChild(made, node, id)]
             request ==
                 IF top_level
                 THEN Request(links[i].href, "parse_categories", id, FALSE, "", NoNode, "")
                 ELSE Request(links[i].href, "parse_category", id, FALSE, "", NoNode, "")
         IN  CategoriesLoop(Schedule(st1, request, FALSE), links, i + 1, node, top_level)

RECURSIVE CollectionsLoop(_, _, _, _)
\* The for loop of parse_collections.
CollectionsLoop(st, links, i, node) ==
    IF i > Len(links) THEN st
    ELSE LET id == Len(st.heap) + 1
             made == Append(st.heap, TopicNode(links[i].text, links[i].href))
             st1 == [st EXCEPT !.heap = AddChild(made, node, id)]
             request == Request(links[i].href, "parse_collection", id, FALSE, "", NoNode, "")
         IN  CollectionsLoop(Schedule(st1, request, FALSE), links, i + 1, node)

RECURSIVE BooksLoopFiltered(_, _, _, _, _)
\* BooksLoop with dont_filter=True forgotten on the book requests.
BooksLoopFiltered(st, links, i, node, source_prefix) ==
    IF i > Len(links) THEN st
    ELSE LET request == Request(links[i], "parse_book", node, FALSE, source_prefix, NoNode, "")
         IN  BooksLoopFiltered(Schedule(st, request, FALSE), links, i + 1, node, source_prefix)

RECURSIVE BooksLoop(_, _, _, _, _)
\* The for loop of parse_category (source_prefix "category") and of
\* parse_collection (source_prefix "collection").
BooksLoop(st, links, i, node, source_prefix) ==
    IF i > Len(links) THEN st
    ELSE LET request == Request(links[i], "parse_book", node, FALSE, source_prefix, NoNode, "")
         IN  BooksLoop(Schedule(st, request, TRUE), links, i + 1, node, source_prefix)

\* NODE_COUNTERS[book]; 0 when the book is not a key.
CounterOf(counters, book) ==
    IF \E i \in 1..Len(counters) : counters[i].book = book
    THEN counters[CHOOSE i \in 1..Len(counters) : counters[i].book = book].count
    ELSE 0

\* Meet without the else branch: a book met again keeps its count.
MeetOnce(counters, book) ==
    IF \E i \in 1..Len(counters) : counters[i].book = book
    THEN counters
    ELSE Append(counters, [book |-> book, count |-> 1])

\* if book_title not in NODE_COUNTERS: ... = 1  else: ... += 1
Meet(counters, book) ==
    IF \E i \in 1..Len(counters) : counters[i].book = book
    THEN [i \in 1..Len(counters) |->
            IF counters[i].book = book
            THEN [counters[i] EXCEPT !.count = @ + 1] ELSE counters[i]]
    ELSE Append(counters, [book |-> book, count |-> 1])

RECURSIVE VersionsElse(_, _, _)
\* Versions with the elif on "PDF" written as a plain else.
VersionsElse(buttons, i, versions) ==
    IF i > Len(buttons) THEN versions
    ELSE IF Contains(buttons[i].text, "ePub")
    THEN VersionsElse(buttons, i + 1,
                      [k \in DOMAIN versions \cup {"ePub"} |->
                          IF k = "ePub" THEN buttons[i].href ELSE versions[k]])
    ELSE VersionsElse(buttons, i + 1,
                      [k \in DOMAIN versions \cup {"PDF"} |->
                          IF k = "PDF" THEN buttons[i].href ELSE versions[k]])

RECURSIVE Versions(_, _, _)
\* The versions dict parse_book fills from the download buttons.
Versions(buttons, i, versions) ==
    IF i > Len(buttons) THEN versions
    ELSE IF Contains(buttons[i].text, "ePub")
    THEN Versions(buttons, i + 1,
                  [k \in DOMAIN versions \cup {"ePub"} |->
                      IF k = "ePub" THEN buttons[i].href ELSE versions[k]])
    ELSE IF Contains(buttons[i].text, "PDF")
    THEN Versions(buttons, i + 1,
                  [k \in DOMAIN versions \cup {"PDF"} |->
                      IF k = "PDF" THEN buttons[i].href ELSE versions[k]])
    ELSE Versions(buttons, i + 1, versions)

NoVersions == [k \in {} |-> ""]

\* Preferred with the two tests in the other order.
PreferredPDFFirst(versions) ==
    IF "PDF" \in DOMAIN versions
    THEN [url |-> versions["PDF"], file_cls |-> "DocumentFile"]
    ELSE IF "ePub" \in DOMAIN versions
    THEN [url |-> versions["ePub"], file_cls |-> "EPubFile"]
    ELSE [url |-> "", file_cls |-> ""]

\* "Prefer ePub, fall back to PDF": the url and file class, file_cls "" when
\* parse_book returns without a request.
Preferred(versions) ==
    IF "ePub" \in DOMAIN versions
    THEN [url |-> versions["ePub"], file_cls |-> "EPubFile"]
    ELSE IF "PDF" \in DOMAIN versions
    THEN [url |-> versions["PDF"], file_cls |-> "DocumentFile"]
    ELSE [url |-> "", file_cls |-> ""]

\* BookOutcome counting the book only once a download format was found.
BookOutcomeCountedLate(st, counters, req, page) ==
    LET book_title == RemoveFirst(page.h1, "Libro")
        counted == Meet(counters, book_title)
        id == Len(st.heap) + 1
        document_node ==
            DocumentNode(SourceId(req.source_prefix, CounterOf(counted, book_title), req.url),
                         book_title)
        st1 == [st EXCEPT !.heap = Append(@, document_node)]
        pick == Preferred(Versions(page.buttons, 1, NoVersions))
    IN  IF page.h1 = <<>>
        THEN [st |-> st, counters |-> counters]
        ELSE IF pick.file_cls = ""
        THEN [st |-> st1, counters |-> counters]
        ELSE [st |-> Schedule(st1, Request(pick.url, "parse_download", req.node, FALSE,
                                           "", id, pick.file_cls), TRUE),
              counters |-> counted]

\* The body of parse_book on the page of req.url: the counters, heap and
\* requests it leaves.
BookOutcome(st, counters, req, page) ==
    LET book_title == RemoveFirst(page.h1, "Libro")
        counted == Meet(counters, book_title)
        id == Len(st.heap) + 1
        document_node ==
            DocumentNode(SourceId(req.source_prefix, CounterOf(counted, book_title), req.url),
                         book_title)
        st1 == [st EXCEPT !.heap = Append(@, document_node)]
        pick == Preferred(Versions(page.buttons, 1, NoVersions))
    IN  IF page.h1 = <<>>
        THEN [st |-> st, counters |-> counters]
        ELSE IF pick.file_cls = ""
        THEN [st |-> st1, counters |-> counted]
        ELSE [st |-> Schedule(st1, Request(pick.url, "parse_download", req.node, FALSE,
                                           "", id, pick.file_cls), TRUE),
              counters |-> counted]

\* The body of parse_download: the heap it leaves.
DownloadOutcome(h, req, page) ==
    IF page.dl = ""
    THEN AddChild(h, req.node, req.document_node)
    ELSE AddChild(AddFile(h, req.document_node, req.file_cls, page.dl),
                  req.node, req.document_node)

\* ------------------------------------------------------------ consistency

RECURSIVE ConsistencyLoopAtCeiling(_, _, _)
\* ConsistencyLoop raising from the ceiling on (>= for >).
ConsistencyLoopAtCeiling(counters, i, log) ==
    IF i > Len(counters) THEN [warned |-> log, raised |-> FALSE]
    ELSE LET log1 == IF counters[i].count > WarnAbove
                     THEN log \cup {counters[i].book} ELSE log
         IN  IF counters[i].count >= Ceiling
             THEN [warned |-> log1, raised |-> TRUE]
             ELSE ConsistencyLoopAtCeiling(counters, i + 1, log1)

RECURSIVE ConsistencyLoop(_, _, _)
\* The for loop of consistency() over NODE_COUNTERS.items(): the books it
\* warned about, and whether it raised AssertionError.
ConsistencyLoop(counters, i, log) ==
    IF i > Len(counters) THEN [warned |-> log, raised |-> FALSE]
    ELSE LET log1 == IF counters[i].count > WarnAbove
                     THEN log \cup {counters[i].book} ELSE log
         IN  IF counters[i].count > Ceiling
             THEN [warned |-> log1, raised |-> TRUE]
             ELSE ConsistencyLoop(counters, i + 1, log1)

\* ---------------------------------------------------------- the tree read

Ids == 1..Len(heap)

Topics == {n \in Ids : heap[n].kind = "TopicNode"}

Documents == {n \in Ids : heap[n].kind = "DocumentNode"}

\* Number of times child stands in the children list of parent.
Occurrences(parent, child) ==
    Cardinality({i \in 1..Len(heap[parent].children) : heap[parent].children[i] = child})

ChildrenOf(parent) ==
    {heap[parent].children[i] : i \in 1..Len(heap[parent].children)}

\* The topics holding the node as a child.
ParentsOf(child) == {t \in Topics : child \in ChildrenOf(t)}

Attached(child) == ParentsOf(child) # {}

\* The tree as the relation "parent source_id holds a child of this kind,
\* title and source_id", the top-level nodes standing under "".
TreeEdges ==
    {<<"", heap[NODE_TREE[i]].kind, heap[NODE_TREE[i]].title, heap[NODE_TREE[i]].source_id>> :
        i \in 1..Len(NODE_TREE)}
    \cup UNION {{<<heap[t].source_id, heap[c].kind, heap[c].title, heap[c].source_id>> :
                    c \in ChildrenOf(t)} : t \in Topics}

Tags == {"", "category", "collection"}

\* The document was built by parse_book for the page at url, with this tag.
TaggedDocFor(d, tag, url) ==
    /\ heap[d].kind = "DocumentNode"
    /\ \E n \in 1..Len(heap) : heap[d].source_id = SourceId(tag, n, url)

DocFor(d, url) == \E tag \in Tags : TaggedDocFor(d, tag, url)

RECURSIVE ContentBelow(_, _)
\* What hangs below topic t, which stands at the end of path: each child
\* with the path of source_ids leading to it, its kind and title, and its
\* source_id (a topic) or the URL of its book page (a document).
ContentBelow(t, path) ==
    LET here == Append(path, heap[t].source_id)
        topics == {c \in ChildrenOf(t) : heap[c].kind = "TopicNode"}
        books == {c \in ChildrenOf(t) : heap[c].kind = "DocumentNode"}
    IN  {<<here, "TopicNode", heap[c].title, heap[c].source_id>> : c \in topics}
        \cup {<<here, "DocumentNode", heap[x[1]].title, x[2]>> :
                 x \in {y \in books \X URLs : DocFor(y[1], y[2])}}
        \cup UNION {ContentBelow(c, here) : c \in topics}

\* The content of the tree, whatever the order of the children lists.
TreeContent ==
    {<<<<>>, "TopicNode", heap[NODE_TREE[i]].title, heap[NODE_TREE[i]].source_id>> :
        i \in 1..Len(NODE_TREE)}
    \cup UNION {ContentBelow(NODE_TREE[i], <<>>) : i \in 1..Len(NODE_TREE)}

CounterItems == {NODE_COUNTERS[i] : i \in 1..Len(NODE_COUNTERS)}

NoRun == [ran |-> FALSE, edges |-> {}, counters |-> {}, content |-> {}]

\* ---------------------------------------------------------------- actions

\* Module import: NODE_TREE = [], NODE_COUNTERS = {}; nothing crawled yet.
Init ==
    /\ site \in Sites
    /\ NODE_TREE = <<>>
    /\ NODE_COUNTERS = <<>>
    /\ heap = <<>>
    /\ frontier = EmptyBag
    /\ seen = {}
    /\ phase = "init"
    /\ stopped = FALSE
    /\ failures = 0
    /\ warned = {}
    /\ channel = <<>>
    /\ prev = NoRun

\* crawl() starts the spider: start_requests builds the two top-level nodes
\* and schedules the two index pages.
StartRequests ==
    /\ phase = "init"
    /\ LET collections_node == Len(heap) + 1
           categories_node == Len(heap) + 2
           made == heap \o <<TopicNode(<<"Libros", "organizados", "por", "coleccion">>,
                                       "colecciones"),
                             TopicNode(<<"Libros", "organizados", "por", "categoria">>,
                                       "categorias")>>
           st0 == [heap |-> made, frontier |-> frontier, seen |-> seen, yielded |-> <<>>]
           st1 == Schedule(st0, Request(CategoriesUrl, "parse_categories", categories_node,
                                        TRUE, "", NoNode, ""), FALSE)
           st2 == Schedule(st1, Request(CollectionsUrl, "parse_collections",
                                        collections_node, FALSE, "", NoNode, ""), FALSE)
       IN  /\ NODE_TREE' = NODE_TREE \o <<collections_node, categories_node>>
           /\ heap' = st2.heap
           /\ frontier' = st2.frontier
           /\ seen' = st2.seen
    /\ phase' = "crawling"
    /\ UNCHANGED <<site, NODE_COUNTERS, stopped, failures, warned, channel, prev>>

\* The state a callback starts from: the answered request has left the frontier.
Answered(req) ==
    [heap |-> heap, frontier |-> Take(req), seen |-> seen, yielded |-> <<>>]

Leave(st) ==
    /\ heap' = st.heap
    /\ frontier' = st.frontier
    /\ seen' = st.seen

ParseCategories(req) ==
    /\ phase = "crawling"
    /\ req.callback = "parse_categories"
    /\ Leave(CategoriesLoop(Answered(req), site[req.url].cats, 1, req.node, req.top_level))
    /\ UNCHANGED <<site, NODE_TREE, NODE_COUNTERS, phase, stopped, failures, warned,
                   channel, prev>>

ParseCategory(req) ==
    /\ phase = "crawling"
    /\ req.callback = "parse_category"
    /\ Leave(BooksLoop(Answered(req), site[req.url].books, 1, req.node, "category"))
    /\ UNCHANGED <<site, NODE_TREE, NODE_COUNTERS, phase, stopped, failures, warned,
                   channel, prev>>

ParseCollections(req) ==
    /\ phase = "crawling"
    /\ req.callback = "parse_collections"
    /\ Leave(CollectionsLoop(Answered(req), site[req.url].colls, 1, req.node))
    /\ UNCHANGED <<site, NODE_TREE, NODE_COUNTERS, phase, stopped, failures, warned,
                   channel, prev>>

\* ParseCollection passing the tag of the other taxonomy.
ParseCollectionMistagged(req) ==
    /\ phase = "crawling"
    /\ req.callback = "parse_collection"
    /\ Leave(BooksLoop(Answered(req), site[req.url].books, 1, req.node, "category"))
    /\ UNCHANGED <<site, NODE_TREE, NODE_COUNTERS, phase, stopped, failures, warned,
                   channel, prev>>

ParseCollection(req) ==
    /\ phase = "crawling"
    /\ req.callback = "parse_collection"
    /\ Leave(BooksLoop(Answered(req), site[req.url].books, 1, req.node, "collection"))
    /\ UNCHANGED <<site, NODE_TREE, NODE_COUNTERS, phase, stopped, failures, warned,
                   channel, prev>>

ParseBook(req) ==
    /\ phase = "crawling"
    /\ req.callback = "parse_book"
    /\ LET out == BookOutcome(Answered(req), NODE_COUNTERS, req, site[req.url])
       IN  /\ Leave(out.st)
           /\ NODE_COUNTERS' = out.counters
    /\ UNCHANGED <<site, NODE_TREE, phase, stopped, failures, warned, channel, prev>>

ParseDownload(req) ==
    /\ phase = "crawling"
    /\ req.callback = "parse_download"
    /\ heap' = DownloadOutcome(heap, req, site[req.url])
    /\ frontier' = Take(req)
    /\ UNCHANGED <<site, NODE_TREE, NODE_COUNTERS, seen, phase, stopped, failures,
                   warned, channel, prev>>

\* AfterFailure for a crawl that gives up on the first failed fetch.
AfterFailureAbort(req) == EmptyBag

\* What a failed fetch leaves of the frontier: the request has no errback, so
\* it is logged and dropped and no callback runs.
AfterFailure(req) == Take(req)

FetchFail(req) ==
    /\ phase = "crawling"
    /\ failures < MaxFailures
    /\ frontier' = AfterFailure(req)
    /\ failures' = failures + 1
    /\ UNCHANGED <<site, NODE_TREE, NODE_COUNTERS, heap, seen, phase, stopped, warned,
                   channel, prev>>

\* The crawl's deferred fires once nothing is pending: reactor.stop(), and
\* reactor.run() returns.
CrawlDone ==
    /\ phase = "crawling"
    /\ frontier = EmptyBag
    /\ phase' = "crawled"
    /\ UNCHANGED <<site, NODE_TREE, NODE_COUNTERS, heap, frontier, seen, stopped,
                   failures, warned, channel, prev>>

\* SIGINT during reactor.run(): the reactor stops and reactor.run() returns
\* with whatever is pending left unanswered.
ExternalStop ==
    /\ phase = "crawling"
    /\ phase' = "crawled"
    /\ stopped' = TRUE
    /\ UNCHANGED <<site, NODE_TREE, NODE_COUNTERS, heap, frontier, seen, failures,
                   warned, channel, prev>>

\* What pre_run reaches after crawl() returned: consistency() runs, and an
\* AssertionError ends the program.
AfterCrawl(counters) ==
    LET res == ConsistencyLoop(counters, 1, {})
    IN  [warned |-> res.warned, phase |-> IF res.raised THEN "failed" ELSE "checked"]

Consistency ==
    /\ phase = "crawled"
    /\ warned' = AfterCrawl(NODE_COUNTERS).warned
    /\ phase' = AfterCrawl(NODE_COUNTERS).phase
    /\ UNCHANGED <<site, NODE_TREE, NODE_COUNTERS, heap, frontier, seen, stopped,
                   failures, channel, prev>>

\* construct_channel: every node of NODE_TREE becomes a child of the channel.
ConstructChannel ==
    /\ phase = "checked"
    /\ channel' = channel \o NODE_TREE
    /\ phase' = "constructed"
    /\ UNCHANGED <<site, NODE_TREE, NODE_COUNTERS, heap, frontier, seen, stopped,
                   failures, warned, prev>>

\* The program is run again on the same catalog after a run that nothing
\* disturbed: a new process, whose module-level NODE_TREE and NODE_COUNTERS
\* start empty; prev keeps what the first run built.
Rerun ==
    /\ phase = "constructed"
    /\ ~prev.ran
    /\ ~stopped
    /\ failures = 0
    /\ prev' = [ran |-> TRUE, edges |-> TreeEdges, counters |-> CounterItems,
                content |-> TreeContent]
    /\ NODE_TREE' = <<>>
    /\ NODE_COUNTERS' = <<>>
    /\ heap' = <<>>
    /\ frontier' = EmptyBag
    /\ seen' = {}
    /\ phase' = "init"
    /\ warned' = {}
    /\ channel' = <<>>
    /\ UNCHANGED <<site, stopped, failures>>

\* A run that nothing stops from outside.
NextCrawl ==
    \/ StartRequests
    \/ \E req \in Pending : ParseCategories(req)
    \/ \E req \in Pending : ParseCategory(req)
    \/ \E req \in Pending : ParseCollections(req)
    \/ \E req \in Pending : ParseCollection(req)
    \/ \E req \in Pending : ParseBook(req)
    \/ \E req \in Pending : ParseDownload(req)
    \/ \E req \in Pending : FetchFail(req)
    \/ CrawlDone
    \/ Consistency
    \/ ConstructChannel

Next ==
    \/ NextCrawl
    \/ ExternalStop

Spec == Init /\ [][Next]_vars

\* The reactor keeps answering while requests are pending, and pre_run runs on.
FairSpec == Init /\ [][NextCrawl]_vars /\ WF_vars(NextCrawl)

SpecRerun == Init /\ [][Next \/ Rerun]_vars

\* ------------------------------------------------- vocabulary of the claims

\* The topics whose pages are walked as book listings.
CollectionTopics == IF Len(NODE_TREE) < 2 THEN {} ELSE ChildrenOf(NODE_TREE[1])

CategoryTopics ==
    IF Len(NODE_TREE) < 2 THEN {}
    ELSE UNION {ChildrenOf(c) : c \in ChildrenOf(NODE_TREE[2])}

\* The listing page of the topic links to the book page at url.
Lists(t, url) ==
    /\ heap[t].source_id \in URLs
    /\ \E i \in 1..Len(site[heap[t].source_id].books) :
          site[heap[t].source_id].books[i] = url

HasEPubButton(page) ==
    \E i \in 1..Len(page.buttons) : Contains(page.buttons[i].text, "ePub")

HasPDFButton(page) ==
    \E i \in 1..Len(page.buttons) :
        /\ Contains(page.buttons[i].text, "PDF")
        /\ ~Contains(page.buttons[i].text, "ePub")

EPubHrefs(page) ==
    {page.buttons[i].href : i \in {j \in 1..Len(page.buttons) :
                                      Contains(page.buttons[j].text, "ePub")}}

PDFHrefs(page) ==
    {page.buttons[i].href : i \in {j \in 1..Len(page.buttons) :
                                      /\ Contains(page.buttons[j].text, "PDF")
                                      /\ ~Contains(page.buttons[j].text, "ePub")}}

\* The title parse_book gives the book of the page at url.
TitleAt(url) == RemoveFirst(site[url].h1, "Libro")

\* The crawl ran to its end and nothing disturbed it.
Undisturbed == ~stopped /\ failures = 0

\* The topics holding some document titled book.
HoldersOf(book) ==
    {t \in Topics : \E d \in ChildrenOf(t) :
        heap[d].kind = "DocumentNode" /\ heap[d].title = book}

\* -------------------------------------------------------------------- C1

\* C1: every DocumentNode in some TopicNode's children has a file set on it.
C1_AttachedDocumentHasFile ==
    \A d \in Documents : Attached(d) => heap[d].files # <<>>

\* -------------------------------------------------------------------- C2

Walked(t) ==
    /\ heap[t].source_id \notin {CategoriesUrl, CollectionsUrl}
    /\ \A t2 \in Topics : heap[t2].source_id = heap[t].source_id => t <= t2

C4_AtMostOneChildPerUrl ==
    \A t \in Topics : \A u \in URLs :
        Cardinality({i \in 1..Len(heap[t].children) :
                        DocFor(heap[t].children[i], u)}) <= 1

\* -------------------------------------------------------------------- C5

\* C5: a run stopped from outside while requests were still unanswered never
\* passes the consistency check as a successful crawl and never hands its
\* tree to channel construction.
C5_StoppedRunNotCompleted ==
    (stopped /\ frontier # EmptyBag) => phase \notin {"checked", "constructed"}

\* -------------------------------------------------------------------- C6

\* The document parse_book has just built, when this step is a parse_book
\* that got past the heading.
Built == Len(heap') = Len(heap) + 1 /\ heap'[Len(heap')].kind = "DocumentNode"

\* The requests this step put on the frontier for the new document.
Emitted ==
    {r \in BagToSet(frontier') :
        r.callback = "parse_download" /\ r.document_node = Len(heap')}

\* C6: parse_book on a page with an ePub button (a PDF button beside it or
\* not, before it or after it) asks for the ePub confirmation page with the
\* EPubFile class; on a page with only a PDF button it asks for the PDF
\* confirmation page with the DocumentFile class.
C6_PreferEPub ==
    [][Built =>
        \A u \in URLs :
            DocFor(Len(heap), u)' =>
                /\ HasEPubButton(site[u]) =>
                      /\ Emitted # {}
                      /\ \A r \in Emitted :
                            r.file_cls = "EPubFile" /\ r.url \in EPubHrefs(site[u])
                /\ (~HasEPubButton(site[u]) /\ HasPDFButton(site[u])) =>
                      /\ Emitted # {}
                      /\ \A r \in Emitted :
                            r.file_cls = "DocumentFile" /\ r.url \in PDFHrefs(site[u])
    ]_vars

\* An ePub request is pending for a page whose PDF button comes first.
C6_Witness ==
    /\ site["/b1"].buttons = <<PDFButton, EPubButton>>
    /\ \E r \in Pending :
          /\ r.callback = "parse_download"
          /\ r.file_cls = "EPubFile"
          /\ r.url = "/b1/epub"
          /\ DocFor(r.document_node, "/b1")

\* -------------------------------------------------------------------- C7

\* C7: a document built for a page with neither an ePub nor a PDF button is
\* carried by no request and is a child of no topic.
C7_NoFormatNeverAttached ==
    \A d \in Documents : \A u \in URLs :
        (DocFor(d, u) /\ ~HasEPubButton(site[u]) /\ ~HasPDFButton(site[u])) =>
            /\ ~Attached(d)
            /\ \A r \in Pending : r.document_node # d

\* A finished crawl that visited a book page whose only button is neither
\* an ePub nor a PDF button.
C7_Witness ==
    /\ phase = "constructed"
    /\ site["/b1"].buttons # <<>>
    /\ ~HasEPubButton(site["/b1"]) /\ ~HasPDFButton(site["/b1"])
    /\ \E d \in Documents : DocFor(d, "/b1")

\* -------------------------------------------------------------------- C8

Counts == {NODE_COUNTERS[i].count : i \in 1..Len(NODE_COUNTERS)}

\* C8: after the crawl, consistency() ends the run exactly when some count
\* exceeds 8; otherwise it warns about exactly the books counted 3 or more
\* and the run goes on; the tree reaches the channel only in a run that
\* passed the check.
C8_AbortAboveCeiling ==
    /\ phase = "failed" <=>
          (phase \notin {"init", "crawling", "crawled"} /\ \E c \in Counts : c > Ceiling)
    /\ phase \in {"checked", "constructed"} =>
          /\ \A c \in Counts : c <= Ceiling
          /\ warned = {NODE_COUNTERS[i].book :
                          i \in {j \in 1..Len(NODE_COUNTERS) : NODE_COUNTERS[j].count >= 3}}
    /\ \A i \in 1..Len(NODE_COUNTERS) :
          NODE_COUNTERS[i].count \in {1, 2} => NODE_COUNTERS[i].book \notin warned
    /\ channel # <<>> => phase = "constructed"

\* A run the check ended: one book was met nine times.
C8_Witness ==
    /\ phase = "failed"
    /\ Ceiling + 1 \in Counts
    /\ channel = <<>>

\* -------------------------------------------------------------------- C9

\* C9: a second run on the unchanged catalog builds the same tree as the
\* first: the same titles and source_ids under the same parents, and the
\* same counts.
C9_RerunSameTree ==
    (prev.ran /\ phase = "constructed" /\ Undisturbed) =>
        /\ TreeEdges = prev.edges
        /\ CounterItems = prev.counters

\* ------------------------------------------------------------------- C10

\* C10: a failed fetch removes that one request and nothing else: the heap,
\* the tree and the counters stay as they are and the crawl goes on; and
\* after a failure the frontier still drains and the run passes on to the
\* consistency check.
C10_FailureDropsOneBranch ==
    /\ [][failures' # failures =>
            /\ heap' = heap
            /\ NODE_TREE' = NODE_TREE
            /\ NODE_COUNTERS' = NODE_COUNTERS
            /\ phase' = "crawling"
            /\ \E req \in Pending : frontier' = frontier (-) SetToBag({req})
         ]_vars
    /\ (failures > 0) ~>
          (frontier = EmptyBag /\ ~stopped /\ phase \in {"constructed", "failed"})

\* A crawl that lost one fetch and still attached a document and finished.
C10_Witness ==
    /\ failures > 0
    /\ phase = "constructed"
    /\ frontier = EmptyBag
    /\ \E d \in Documents : Attached(d)

\* ------------------------------------------------------------------- C11

\* C11: no two TopicNodes of the tree have the same source_id.
C11_TopicKeysUnique ==
    \A t1 \in Topics : \A t2 \in Topics :
        heap[t1].source_id = heap[t2].source_id => t1 = t2

\* ------------------------------------------------------------------- C12

\* C12 as stated: a page that is an index of categories is never walked as
\* a book listing, however deep it lies below the categories root.
C12_IndexPagesWalkedAsIndex ==
    \A r \in Pending : r.callback = "parse_category" => site[r.url].cats = <<>>

\* C12 amended: only the categories root page is walked with top_level; the
\* URL of each TopicNode made there is walked once more as an index, without
\* top_level; the URL of each TopicNode made on that second level is walked
\* as a book listing, so the topics of the second level hold documents only
\* and an index nested deeper gets no TopicNodes.
C12_TwoIndexLevels ==
    /\ \A r \in Pending :
          /\ (r.callback = "parse_categories" /\ r.top_level) =>
                r.node = NODE_TREE[2] /\ r.url = CategoriesUrl
          /\ (r.callback = "parse_categories" /\ ~r.top_level) =>
                r.node \in ChildrenOf(NODE_TREE[2])
          /\ r.callback = "parse_category" => r.node \in CategoryTopics
    /\ \A t \in CategoryTopics : \A c \in ChildrenOf(t) : heap[c].kind = "DocumentNode"
    /\ \A t \in Topics :
          t \in CategoryTopics
          \/ t \in CollectionTopics
          \/ t \in ChildrenOf(NODE_TREE[2])
          \/ \E i \in 1..Len(NODE_TREE) : NODE_TREE[i] = t

\* A finished undisturbed crawl of a catalog whose sub-category page /sub1
\* is an index linking /deep: /sub1 has its TopicNode, /deep has none.
C12_Witness ==
    /\ phase = "constructed" /\ Undisturbed
    /\ site["/sub1"].cats # <<>>
    /\ \E t \in CategoryTopics : heap[t].source_id = "/sub1"
    /\ \A t \in Topics : heap[t].source_id # "/deep"

\* ------------------------------------------------------------------- C13

\* The anchor does not carry the button-style class marker.
PlainAnchor(a) == ~Contains(a.class, "btn")

C14_SameContentInAnyOrder ==
    (prev.ran /\ phase = "constructed" /\ Undisturbed) => TreeContent = prev.content

\* ------------------------------------------------------------------- C15

\* C15: a document attached under a collection topic is tagged "collection",
\* one attached under a category topic is tagged "category", and documents
\* are attached nowhere else.
C15_TagMatchesTaxonomy ==
    \A t \in Topics : \A d \in ChildrenOf(t) :
        heap[d].kind = "DocumentNode" =>
            /\ t \in CollectionTopics \/ t \in CategoryTopics
            /\ t \in CollectionTopics => \E u \in URLs : TaggedDocFor(d, "collection", u)
            /\ t \in CategoryTopics => \E u \in URLs : TaggedDocFor(d, "category", u)

\* A finished crawl with a document under a collection topic and one under
\* a category topic.
C15_Witness ==
    /\ phase = "constructed"
    /\ \E t \in CollectionTopics : \E d \in ChildrenOf(t) : heap[d].kind = "DocumentNode"
    /\ \E t \in CategoryTopics : \E d \in ChildrenOf(t) : heap[d].kind = "DocumentNode"

\* ------------------------------------------------------------------- C16

\* How many requests a chain starting with r can still hold, r included.
Rank(r) ==
    CASE r.callback = "parse_categories" /\ r.top_level -> 5
      [] r.callback = "parse_categories" -> 4
      [] r.callback = "parse_collections" -> 4
      [] r.callback = "parse_category" -> 3
      [] r.callback = "parse_collection" -> 3
      [] r.callback = "parse_book" -> 2
      [] OTHER -> 1

\* C16: every request a callback adds to the frontier stands one step
\* further down its chain than the request just answered, so no chain holds
\* more than five requests; and the crawl ends: the frontier drains and the
\* run passes on to the check.
C16_CrawlTerminates ==
    /\ [][phase = "crawling" =>
            \A q \in BagToSet(frontier') :
                CopiesIn(q, frontier') > CopiesIn(q, frontier) =>
                    \E r \in Pending :
                        /\ CopiesIn(r, frontier') < CopiesIn(r, frontier)
                        /\ Rank(q) = Rank(r) - 1
         ]_vars
    /\ <>(frontier = EmptyBag /\ phase \in {"constructed", "failed"})

\* The pages of the catalog link in cycles.
Cyclic ==
    /\ \E i \in 1..Len(site["/cat1"].cats) : site["/cat1"].cats[i].href = CategoriesUrl
    /\ \E i \in 1..Len(site["/sub1"].books) : site["/sub1"].books[i] = "/sub1"
    /\ \E i \in 1..Len(site["/b1"].buttons) : site["/b1"].buttons[i].href = "/b1"

\* A crawl of a catalog whose pages link in cycles has ended, with
\* documents attached.
C16_Witness ==
    /\ Cyclic
    /\ phase = "constructed"
    /\ frontier = EmptyBag
    /\ \E d \in Documents : Attached(d)

\* ------------------------------------------------------------------- C17

\* C17: any two DocumentNodes built by parse_book have different source_ids.
C17_DocumentKeysUnique ==
    \A d1 \in Documents : \A d2 \in Documents :
        heap[d1].source_id = heap[d2].source_id => d1 = d2

\* A finished crawl that built two documents for the same page with the
\* same tag.
C17_Witness ==
    /\ phase = "constructed"
    /\ \E d1 \in Documents : \E d2 \in Documents :
          /\ d1 # d2
          /\ TaggedDocFor(d1, "category", "/b1")
          /\ TaggedDocFor(d2, "category", "/b1")

\* ------------------------------------------------------------------- C18

\* Number of children entries, over all topics, that are documents of the title.
AttachedCount(book) ==
    Cardinality({x \in Topics \X Ids :
                    /\ x[2] <= Len(heap[x[1]].children)
                    /\ heap[heap[x[1]].children[x[2]]].kind = "DocumentNode"
                    /\ heap[heap[x[1]].children[x[2]]].title = book})

Titles == {heap[d].title : d \in Documents} \cup {NODE_COUNTERS[i].book : i \in 1..Len(NODE_COUNTERS)}

\* C18: the documents of a title attached in the tree never outnumber the
\* title's counter; every parse_book that builds a document raises the
\* counter of its title by one, a download format found or not; and no
\* counter ever goes down.
C18_AttachedWithinCounter ==
    /\ [](\A b \in Titles : AttachedCount(b) <= CounterOf(NODE_COUNTERS, b))
    /\ [][/\ \A b \in Titles : CounterOf(NODE_COUNTERS', b) >= CounterOf(NODE_COUNTERS, b)
          /\ Built =>
                /\ CounterOf(NODE_COUNTERS', heap'[Len(heap')].title) =
                      CounterOf(NODE_COUNTERS, heap'[Len(heap')].title) + 1
                /\ \A b \in Titles :
                      b # heap'[Len(heap')].title =>
                          CounterOf(NODE_COUNTERS', b) = CounterOf(NODE_COUNTERS, b)
         ]_vars

\* A finished crawl whose book page offers no format: the counter stands at
\* two and nothing of the title is attached.
C18_Witness ==
    /\ phase = "constructed"
    /\ Undisturbed
    /\ CounterOf(NODE_COUNTERS, <<"Orgullo">>) = 2
    /\ AttachedCount(<<"Orgullo">>) = 0

====
